---- MODULE Spec2Model ----
(***************************************************************************)
(* Task Management API (src/task_api_fastapi.py): user registration and    *)
(* login, JWT bearer tokens, and the task CRUD routes over the SQLite      *)
(* store.  Strings are sequences of one-character strings; time is a clock *)
(* of ticks, TicksPerSecond ticks to the second.                           *)
(***************************************************************************)
EXTENDS Integers, Sequences, FiniteSets, TLC

VARIABLES users, tasks, tokens, clock, advances, pending, last, prev

vars == <<users, tasks, tokens, clock, advances, pending, last, prev>>

----------------------------------------------------------------------------
(* Bounds of the model *)

TicksPerSecond == 2
MaxId == 2
MaxAdvance == 3

(* Program constants *)

ACCESS_TOKEN_EXPIRE_MINUTES == 30
DefaultExpireMinutes == 15
DefaultSkip == 0
DefaultLimit == 10
BcryptMaxBytes == 72

SECRET_KEY == "mysecretkey"
OtherKey == "notthekey"

----------------------------------------------------------------------------
(* Generic helpers *)

Min(a, b) == IF a < b THEN a ELSE b

MaxOf(S) == IF S = {} THEN 0 ELSE CHOOSE m \in S : \A x \in S : x <= m

Rep(c, n) == [i \in 1..n |-> c]

\* Optional values: None, or Some(x)
None == <<>>

Some(x) == <<x>>

----------------------------------------------------------------------------
(* Password hashing: passlib CryptContext(schemes=["bcrypt"]).  bcrypt     *)
(* salts the password and keys on its first 72 bytes only.                 *)

BcryptKey(password) == SubSeq(password, 1, Min(Len(password), BcryptMaxBytes))

get_password_hash(password, salt) == [salt |-> salt, key |-> BcryptKey(password)]

verify_password(plain_password, hashed_password) ==
    hashed_password = get_password_hash(plain_password, hashed_password.salt)

----------------------------------------------------------------------------
(* Time and tokens *)

\* datetime.timedelta(minutes = m), in ticks
Minutes(m) == m * 60 * TicksPerSecond

\* jose turns a datetime claim into whole seconds: timegm(d.utctimetuple())
Seconds(t) == t \div TicksPerSecond

NoToken == [kind |-> "none", sub |-> <<>>, exp |-> 0, key |-> ""]

Garbage == [kind |-> "garbage", sub |-> <<>>, exp |-> 0, key |-> ""]

jwt_encode(sub, exp, key) == [kind |-> "jwt", sub |-> sub, exp |-> exp, key |-> key]

\* faulty variant: expires_delta is ignored, every token gets the default lifetime
create_access_token_default(sub, expires_delta, now) ==
    jwt_encode(sub, Seconds(now + Minutes(DefaultExpireMinutes)), SECRET_KEY)

\* expires_delta or datetime.timedelta(minutes=15): None and a zero
\* timedelta are both falsy
create_access_token(sub, expires_delta, now) ==
    LET delta == IF expires_delta = None \/ expires_delta = Some(0)
                 THEN Minutes(DefaultExpireMinutes)
                 ELSE expires_delta[1]
    IN  jwt_encode(sub, Seconds(now + delta), SECRET_KEY)

\* faulty variant: the signature is not verified
jwt_decode_unverified(token, now) ==
    IF token.kind # "jwt" THEN None
    ELSE IF token.exp < Seconds(now) THEN None
    ELSE Some(token.sub)

\* jwt.decode(token, SECRET_KEY, algorithms=[ALGORITHM]): Some(subject), or
\* None when a JWTError is raised (bad format, bad signature, exp < now in
\* whole seconds)
jwt_decode(token, now) ==
    IF token.kind # "jwt" THEN None
    ELSE IF token.key # SECRET_KEY THEN None
    ELSE IF token.exp < Seconds(now) THEN None
    ELSE Some(token.sub)

\* db.query(User).filter(User.username == username): string equality
FindUser(us, username) == {r \in us : r.username = username}

\* faulty variant: only the first registered user is let in
get_current_user_first(token, us, now) ==
    LET payload == jwt_decode(token, now)
    IN  IF payload = None THEN None
        ELSE IF {r \in FindUser(us, payload[1]) : r.id = 1} = {} THEN None
        ELSE Some(CHOOSE r \in FindUser(us, payload[1]) : TRUE)

\* Some(user) the token resolves to, or None (HTTP 401)
get_current_user(token, us, now) ==
    LET payload == jwt_decode(token, now)
    IN  IF payload = None THEN None
        ELSE IF FindUser(us, payload[1]) = {} THEN None
        ELSE Some(CHOOSE r \in FindUser(us, payload[1]) : TRUE)

----------------------------------------------------------------------------
(* The users table: rows [id, username, password], username UNIQUE *)

NextUserId(us) == MaxOf({r.id : r \in us}) + 1

\* faulty variant: the column is declared without unique=True
UsernameNotUnique(us, username) == TRUE

\* the UNIQUE constraint on users.username, checked by the INSERT
UsernameUnique(us, username) == FindUser(us, username) = {}

\* db.add(db_user); db.commit(): the row is inserted unless the INSERT
\* raises IntegrityError
InsertUser(us, username, hashed_password) ==
    IF UsernameUnique(us, username)
    THEN us \cup {[id |-> NextUserId(us), username |-> username,
                   password |-> hashed_password]}
    ELSE us

UserResponse(r) == [id |-> r.id, username |-> r.username]

----------------------------------------------------------------------------
(* The tasks table: rows [id, title, description], id INTEGER PRIMARY KEY  *)
(* (the SQLite rowid: the largest id in the table plus one)                *)

TaskIds(ts) == {r.id : r \in ts}

NextTaskId(ts) == MaxOf(TaskIds(ts)) + 1

\* faulty variant: the filter on the id is left out, .first() is the first row
FindTaskUnfiltered(ts, task_id) ==
    IF ts = {} THEN None
    ELSE Some(CHOOSE r \in ts : \A o \in ts : r.id <= o.id)

\* db.query(Task).filter(Task.id == task_id).first(): None or Some(row)
FindTask(ts, task_id) ==
    IF task_id \in TaskIds(ts)
    THEN Some(CHOOSE r \in ts : r.id = task_id)
    ELSE None

RECURSIVE OrderById(_)
\* a table scan returns the rows in rowid order
OrderById(ts) ==
    IF ts = {} THEN <<>>
    ELSE LET first == CHOOSE r \in ts : \A o \in ts : r.id <= o.id
         IN  <<first>> \o OrderById(ts \ {first})

Letters == <<"a", "b", "c", "d", "e", "f", "g", "h", "i", "j", "k", "l", "m",
             "n", "o", "p", "q", "r", "s", "t", "u", "v", "w", "x", "y", "z">>

Capitals == <<"A", "B", "C", "D", "E", "F", "G", "H", "I", "J", "K", "L", "M",
              "N", "O", "P", "Q", "R", "S", "T", "U", "V", "W", "X", "Y", "Z">>

\* SQLite's LIKE folds the case of ASCII letters
Fold(c) ==
    IF \E i \in DOMAIN Capitals : Capitals[i] = c
    THEN Letters[CHOOSE i \in DOMAIN Capitals : Capitals[i] = c]
    ELSE c

RECURSIVE Like(_, _)
\* s LIKE pattern in SQLite: % matches any run of characters, _ any one
\* character, every other character itself without regard to case
Like(s, pattern) ==
    IF pattern = <<>> THEN s = <<>>
    ELSE IF Head(pattern) = "%"
         THEN Like(s, Tail(pattern)) \/ (s # <<>> /\ Like(Tail(s), pattern))
    ELSE /\ s # <<>>
         /\ Head(pattern) = "_" \/ Fold(Head(pattern)) = Fold(Head(s))
         /\ Like(Tail(s), Tail(pattern))

\* query.filter(Task.title.like(like) | Task.description.like(like)) when
\* q is neither None nor empty
Filter(rows, q) ==
    IF q = None \/ q = Some(<<>>) THEN rows
    ELSE LET like == <<"%">> \o q[1] \o <<"%">>
         IN  SelectSeq(rows, LAMBDA r : Like(r.title, like) \/ Like(r.description, like))

\* OFFSET skip: a negative offset skips nothing
Offset(rows, skip) ==
    IF skip <= 0 THEN rows ELSE SubSeq(rows, skip + 1, Len(rows))

\* faulty variant: the limit taken as the index of the last row returned, counted
\* from zero
LimitInclusive(rows, limit) ==
    IF limit < 0 THEN rows ELSE SubSeq(rows, 1, Min(limit + 1, Len(rows)))

\* LIMIT limit: a negative limit is no limit
Limit(rows, limit) ==
    IF limit < 0 THEN rows ELSE SubSeq(rows, 1, Min(limit, Len(rows)))

\* query.offset(skip).limit(limit).all()
QueryTasks(ts, skip, limit, q) == Limit(Offset(Filter(OrderById(ts), q), skip), limit)

\* faulty variant: every field is assigned, an omitted one as the empty string
ApplyUpdateReplace(row, task_update) ==
    [id |-> row.id,
     title |-> IF task_update.title # None THEN task_update.title[1] ELSE <<>>,
     description |-> IF task_update.description # None
                     THEN task_update.description[1] ELSE <<>>]

\* the row after the handler's assignments: a field is assigned when the
\* request provides it
ApplyUpdate(row, task_update) ==
    [id |-> row.id,
     title |-> IF task_update.title # None THEN task_update.title[1] ELSE row.title,
     description |-> IF task_update.description # None
                     THEN task_update.description[1] ELSE row.description]

\* the UPDATE the session flushes at commit: the columns whose assigned
\* value differs from the value loaded, written over the stored row
FlushUpdate(row, loaded, assigned) ==
    [id |-> row.id,
     title |-> IF assigned.title # loaded.title THEN assigned.title ELSE row.title,
     description |-> IF assigned.description # loaded.description
                     THEN assigned.description ELSE row.description]

----------------------------------------------------------------------------
(* Responses *)

\* a response, with the request's arguments (a task id and the fields of an
\* update, a username and password) and the bearer token it carried; seq
\* alternates from one response to the next
Response(op, arg, status, body) ==
    [op |-> op, token |-> <<>>, arg |-> arg, status |-> status, body |-> body, seq |-> 0]

NoResponse == Response("none", <<>>, 0, <<>>)

Bearing(token, r) == [r EXCEPT !.token = <<token>>]

Idle == [op |-> "idle"]

Procs == {1, 2}

----------------------------------------------------------------------------
(* Initial state: empty tables, no token issued, no request answered yet   *)

Init ==
    /\ users = {}
    /\ tasks = {}
    /\ tokens = {}
    /\ clock = 0
    /\ advances = 0
    /\ pending = [p \in Procs |-> Idle]
    /\ last = NoResponse
    /\ prev = [op |-> "none", status |-> 0, user |-> None]

\* tokens holds the latest token a login issued to each user, with the time
\* of issue.  The tokens a client can put in the Authorization header: none, a string
\* that is no JWT, a JWT signed with another key
\* (one whose expiry lies beyond every time the clock reaches), or a token a
\* login issued
Forged(U) == {jwt_encode(u, Seconds(MaxAdvance * Minutes(ACCESS_TOKEN_EXPIRE_MINUTES)) + 1,
                         OtherKey) : u \in U}

Presentable(U) == {NoToken, Garbage} \cup Forged(U) \cup {t.token : t \in tokens}

\* the user a response was made for: the subject of the token its request
\* carried, when the token resolved
UserOf(r) ==
    IF r.token = <<>> \/ r.status = 401 THEN None ELSE Some(r.token[1].sub)

\* the response goes out: last is the latest response, prev the operation,
\* status and user of the one before it
Respond(r) ==
    /\ last' = [r EXCEPT !.seq = 1 - last.seq]
    /\ prev' = [op |-> last.op, status |-> last.status, user |-> UserOf(last)]

\* the token dependency fails before the handler sees its arguments
Unauthorized(op, token) ==
    /\ Respond(Bearing(token, Response(op, <<>>, 401, <<>>)))
    /\ UNCHANGED <<users, tasks, tokens, clock, advances, pending>>

----------------------------------------------------------------------------
(* Auth endpoints *)

\* faulty variant: the duplicate check is left out, the INSERT raises instead
register_user_unchecked(username, password, salt) ==
    IF FindUser(users, username) # {}
    THEN /\ Respond(Response("register_user", <<username, password>>, 500, <<>>))
         /\ UNCHANGED <<users, tasks, tokens, clock, advances, pending>>
    ELSE /\ users' = InsertUser(users, username, get_password_hash(password, salt))
         /\ Respond(Response("register_user", <<username, password>>, 200,
                    <<UserResponse(CHOOSE r \in users' : r.username = username)>>))
         /\ UNCHANGED <<tasks, tokens, clock, advances, pending>>

\* faulty variant: a register of a stored username writes the row anew,
\* under a new id
register_user_renumber(username, password, salt) ==
    LET kept == {r \in users : r.username # username}
    IN  /\ users' = kept \cup {[id |-> NextUserId(users), username |-> username,
                                password |-> get_password_hash(password, salt)]}
        /\ Respond(Response("register_user", <<username, password>>, 200,
                   <<UserResponse(CHOOSE r \in users' : r.username = username)>>))
        /\ UNCHANGED <<tasks, tokens, clock, advances, pending>>

\* POST /register
register_user(username, password, salt) ==
    IF FindUser(users, username) # {}
    THEN /\ Respond(Response("register_user", <<username, password>>, 400, <<>>))
         /\ UNCHANGED <<users, tasks, tokens, clock, advances, pending>>
    ELSE /\ users' = InsertUser(users, username, get_password_hash(password, salt))
         /\ Respond(Response("register_user", <<username, password>>, 200,
                    <<UserResponse(CHOOSE r \in users' : r.username = username)>>))
         /\ UNCHANGED <<tasks, tokens, clock, advances, pending>>

\* POST /register up to the duplicate check and the hashing: the request of
\* process p either is answered 400 or goes on to its INSERT
register_check(p, username, password, salt) ==
    /\ pending[p] = Idle
    /\ IF FindUser(users, username) # {}
       THEN /\ Respond(Response("register_user", <<username, password>>, 400, <<>>))
            /\ UNCHANGED <<users, tasks, tokens, clock, advances, pending>>
       ELSE /\ pending' = [pending EXCEPT ![p] =
                              [op |-> "register_user", username |-> username,
                               password |-> password,
                               hashed_password |-> get_password_hash(password, salt)]]
            /\ UNCHANGED <<users, tasks, tokens, clock, advances, last, prev>>

\* POST /register from db.add to the return: the INSERT commits, or it
\* raises IntegrityError on the UNIQUE username and the request ends in 500
register_commit(p) ==
    /\ pending[p] # Idle
    /\ pending[p].op = "register_user"
    /\ LET username == pending[p].username
           arg == <<username, pending[p].password>>
       IN  /\ users' = InsertUser(users, username, pending[p].hashed_password)
           /\ Respond(IF UsernameUnique(users, username)
                      THEN Response("register_user", arg, 200,
                               <<UserResponse(CHOOSE r \in users' : r.username = username)>>)
                      ELSE Response("register_user", arg, 500, <<>>))
    /\ pending' = [pending EXCEPT ![p] = Idle]
    /\ UNCHANGED <<tasks, tokens, clock, advances>>

\* POST /token
login(username, password) ==
    LET found == FindUser(users, username)
        user == CHOOSE r \in found : TRUE
        access_token == create_access_token(user.username,
                            Some(Minutes(ACCESS_TOKEN_EXPIRE_MINUTES)), clock)
    IN  IF found = {} \/ ~verify_password(password, user.password)
        THEN /\ Respond(Response("login", <<username, password>>, 401, <<>>))
             /\ UNCHANGED <<users, tasks, tokens, clock, advances, pending>>
        ELSE /\ tokens' = {t \in tokens : t.user # username}
                            \cup {[token |-> access_token, iat |-> clock, user |-> username]}
             /\ Respond(Response("login", <<username, password>>, 200, <<access_token>>))
             /\ UNCHANGED <<users, tasks, clock, advances, pending>>

----------------------------------------------------------------------------
(* Task endpoints *)

\* the response of a protected route to a request whose token resolved
Answer(token, op, arg, status, body) ==
    Respond(Bearing(token, Response(op, arg, status, body)))

\* POST /tasks/
create_task(token, title, description) ==
    IF get_current_user(token, users, clock) = None
    THEN Unauthorized("create_task", token)
    ELSE LET db_task == [id |-> NextTaskId(tasks), title |-> title,
                         description |-> description]
         IN  /\ db_task.id <= MaxId
             /\ tasks' = tasks \cup {db_task}
             /\ Answer(token, "create_task", <<title, description>>, 200, <<db_task>>)
             /\ UNCHANGED <<users, tokens, clock, advances, pending>>

\* GET /tasks/?skip&limit&q
read_tasks(token, skip, limit, q) ==
    IF get_current_user(token, users, clock) = None
    THEN Unauthorized("read_tasks", token)
    ELSE /\ Answer(token, "read_tasks", <<skip, limit, q>>, 200,
                   QueryTasks(tasks,
                              IF skip = None THEN DefaultSkip ELSE skip[1],
                              IF limit = None THEN DefaultLimit ELSE limit[1],
                              q))
         /\ UNCHANGED <<users, tasks, tokens, clock, advances, pending>>

\* GET /tasks/{task_id}
read_task(token, task_id) ==
    IF get_current_user(token, users, clock) = None
    THEN Unauthorized("read_task", token)
    ELSE /\ IF FindTask(tasks, task_id) = None
            THEN Answer(token, "read_task", <<task_id>>, 404, <<>>)
            ELSE Answer(token, "read_task", <<task_id>>, 200, FindTask(tasks, task_id))
         /\ UNCHANGED <<users, tasks, tokens, clock, advances, pending>>

\* PUT /tasks/{task_id}
update_task(token, task_id, task_update) ==
    IF get_current_user(token, users, clock) = None
    THEN Unauthorized("update_task", token)
    ELSE IF FindTask(tasks, task_id) = None
    THEN /\ Answer(token, "update_task", <<task_id, task_update>>, 404, <<>>)
         /\ UNCHANGED <<users, tasks, tokens, clock, advances, pending>>
    ELSE LET task == FindTask(tasks, task_id)[1]
             row == FlushUpdate(task, task, ApplyUpdate(task, task_update))
         IN  /\ tasks' = (tasks \ {task}) \cup {row}
             /\ Answer(token, "update_task", <<task_id, task_update>>, 200, <<row>>)
             /\ UNCHANGED <<users, tokens, clock, advances, pending>>

\* faulty variant: the delete is answered but never committed
delete_task_uncommitted(token, task_id) ==
    IF get_current_user(token, users, clock) = None
    THEN Unauthorized("delete_task", token)
    ELSE /\ IF FindTask(tasks, task_id) = None
            THEN Answer(token, "delete_task", <<task_id>>, 404, <<>>)
            ELSE Answer(token, "delete_task", <<task_id>>, 200, <<>>)
         /\ UNCHANGED <<users, tasks, tokens, clock, advances, pending>>

\* DELETE /tasks/{task_id}
delete_task(token, task_id) ==
    IF get_current_user(token, users, clock) = None
    THEN Unauthorized("delete_task", token)
    ELSE IF FindTask(tasks, task_id) = None
    THEN /\ Answer(token, "delete_task", <<task_id>>, 404, <<>>)
         /\ UNCHANGED <<users, tasks, tokens, clock, advances, pending>>
    ELSE /\ tasks' = tasks \ {FindTask(tasks, task_id)[1]}
         /\ Answer(token, "delete_task", <<task_id>>, 200, <<>>)
         /\ UNCHANGED <<users, tokens, clock, advances, pending>>

\* PUT /tasks/{task_id} up to db.commit(): the request of process p is
\* refused, or answered 404, or holds the row its session loaded, with the
\* fields the handler assigned
update_load(p, token, task_id, task_update) ==
    /\ pending[p] = Idle
    /\ IF get_current_user(token, users, clock) = None
       THEN Unauthorized("update_task", token)
       ELSE IF FindTask(tasks, task_id) = None
       THEN /\ Answer(token, "update_task", <<task_id, task_update>>, 404, <<>>)
            /\ UNCHANGED <<users, tasks, tokens, clock, advances, pending>>
       ELSE /\ pending' = [pending EXCEPT ![p] =
                               [op |-> "update_task", token |-> token,
                                task_id |-> task_id, task_update |-> task_update,
                                task |-> FindTask(tasks, task_id)[1]]]
            /\ UNCHANGED <<users, tasks, tokens, clock, advances, last, prev>>

\* PUT /tasks/{task_id} from db.commit() to the return: the session writes
\* the columns whose value the handler changed and reads the row back; when
\* the row is gone the UPDATE matches no row (StaleDataError), or the
\* refresh finds none (InvalidRequestError), and the request ends in 500
update_commit(p) ==
    /\ pending[p] # Idle
    /\ pending[p].op = "update_task"
    /\ LET r == pending[p]
           arg == <<r.task_id, r.task_update>>
           stored == FindTask(tasks, r.task_id)
           row == FlushUpdate(stored[1], r.task, ApplyUpdate(r.task, r.task_update))
       IN  IF stored = None
           THEN /\ Answer(r.token, "update_task", arg, 500, <<>>)
                /\ UNCHANGED tasks
           ELSE /\ tasks' = (tasks \ {stored[1]}) \cup {row}
                /\ Answer(r.token, "update_task", arg, 200, <<row>>)
    /\ pending' = [pending EXCEPT ![p] = Idle]
    /\ UNCHANGED <<users, tokens, clock, advances>>

\* DELETE /tasks/{task_id} up to db.delete(task)
delete_load(p, token, task_id) ==
    /\ pending[p] = Idle
    /\ IF get_current_user(token, users, clock) = None
       THEN Unauthorized("delete_task", token)
       ELSE IF FindTask(tasks, task_id) = None
       THEN /\ Answer(token, "delete_task", <<task_id>>, 404, <<>>)
            /\ UNCHANGED <<users, tasks, tokens, clock, advances, pending>>
       ELSE /\ pending' = [pending EXCEPT ![p] =
                               [op |-> "delete_task", token |-> token,
                                task_id |-> task_id]]
            /\ UNCHANGED <<users, tasks, tokens, clock, advances, last, prev>>

\* DELETE /tasks/{task_id} from db.commit() to the return: the DELETE takes
\* the row with the id out; a DELETE that matches no row only warns
delete_commit(p) ==
    /\ pending[p] # Idle
    /\ pending[p].op = "delete_task"
    /\ tasks' = {t \in tasks : t.id # pending[p].task_id}
    /\ Answer(pending[p].token, "delete_task", <<pending[p].task_id>>, 200, <<>>)
    /\ pending' = [pending EXCEPT ![p] = Idle]
    /\ UNCHANGED <<users, tokens, clock, advances>>

----------------------------------------------------------------------------
(* The request-by-request API: every handler runs to completion *)

Alice == <<"a", "l">>

Password1 == <<"p", "w", "1">>

Salts == {"s1", "s2"}

TaskStrings == {<<"A", "b">>, <<"b">>}

Updates == {[title |-> t, description |-> d] :
                t \in {None} \cup {Some(x) : x \in TaskStrings},
                d \in {None} \cup {Some(x) : x \in TaskStrings}}

\* the tokens the requests of Spec carry: none, or one a login issued
Bearer == {NoToken} \cup {t.token : t \in tokens}

Register == register_user(Alice, Password1, "s1")

Login == login(Alice, Password1)

CreateTask == \E tk \in Bearer, t, d \in TaskStrings : create_task(tk, t, d)

ReadTasks == \E tk \in Bearer : read_tasks(tk, None, None, None)

ReadTask == \E tk \in Bearer, id \in 1..MaxId : read_task(tk, id)

UpdateTask == \E tk \in Bearer, id \in 1..MaxId, u \in Updates : update_task(tk, id, u)

DeleteTask == \E tk \in Bearer, id \in 1..MaxId : delete_task(tk, id)

Next ==
    \/ Register
    \/ Login
    \/ CreateTask
    \/ ReadTasks
    \/ ReadTask
    \/ UpdateTask
    \/ DeleteTask

Spec == Init /\ [][Next]_vars

----------------------------------------------------------------------------
(* The auth endpoints alone, over two usernames that differ in case and    *)
(* passwords of 3 and of 73 characters, the last two alike in their first  *)
(* 72.  SpecAuthSeq runs the requests one after the other; SpecAuth lets   *)
(* the register requests of two processes interleave.                      *)

AuthUsernames == {<<"a", "l">>, <<"A", "l">>}

Long1 == Rep("x", BcryptMaxBytes) \o <<"1">>

Long2 == Rep("x", BcryptMaxBytes) \o <<"2">>

Passwords == {Password1, Long1, Long2}

RegisterAny == \E u \in AuthUsernames, pw \in Passwords, s \in Salts :
                   register_user(u, pw, s)

LoginAny == \E u \in AuthUsernames, pw \in Passwords : login(u, pw)

NextAuthSeq == RegisterAny \/ LoginAny

SpecAuthSeq == Init /\ [][NextAuthSeq]_vars

RegisterCheck == \E p \in Procs, u \in AuthUsernames, pw \in {Password1, Long1} :
                     register_check(p, u, pw, "s1")

RegisterCommit == \E p \in Procs : register_commit(p)

NextAuth == RegisterCheck \/ RegisterCommit

SpecAuth == Init /\ [][NextAuth]_vars

----------------------------------------------------------------------------
(* Token lifetime: one user, the wall clock moving between requests, and   *)
(* one request of each protected route                                     *)

\* datetime.datetime.utcnow() is later at a later request
AdvanceClock(d) ==
    /\ advances < MaxAdvance
    /\ clock' = clock + d
    /\ advances' = advances + 1
    /\ UNCHANGED <<users, tasks, tokens, pending, last, prev>>

Durations == {1, Minutes(ACCESS_TOKEN_EXPIRE_MINUTES)}

OneString == <<"b">>

OneUpdate == [title |-> Some(OneString), description |-> None]

TokCreate(tk) == create_task(tk, OneString, OneString)

TokList(tk) == read_tasks(tk, None, None, None)

TokGet(tk) == read_task(tk, 1)

TokUpdate(tk) == update_task(tk, 1, OneUpdate)

TokDelete(tk) == delete_task(tk, 1)

Tick == \E d \in Durations : AdvanceClock(d)

NextTok ==
    \/ Register
    \/ Login
    \/ Tick
    \/ \E tk \in Presentable({Alice}) : TokCreate(tk)
    \/ \E tk \in Presentable({Alice}) : TokList(tk)
    \/ \E tk \in Presentable({Alice}) : TokGet(tk)
    \/ \E tk \in Presentable({Alice}) : TokUpdate(tk)
    \/ \E tk \in Presentable({Alice}) : TokDelete(tk)

SpecTok == Init /\ [][NextTok]_vars

----------------------------------------------------------------------------
(* The token issuer called with lifetimes of its caller's choice: zero, a  *)
(* second, the lifetime login passes                                       *)

Ttls == {0, TicksPerSecond, Minutes(ACCESS_TOKEN_EXPIRE_MINUTES)}

\* create_access_token(data={"sub": username}, expires_delta=ttl) at the
\* time of the clock; tokens keeps the token with the time and the ttl of
\* the call
issue(username, ttl) ==
    LET access_token == create_access_token(username, Some(ttl), clock)
    IN  /\ tokens' = {t \in tokens : t.user # username}
                        \cup {[token |-> access_token, iat |-> clock,
                               user |-> username, ttl |-> ttl]}
        /\ Respond(Response("create_access_token", <<username, ttl>>, 200,
                            <<access_token>>))
        /\ UNCHANGED <<users, tasks, clock, advances, pending>>

Issue == \E u \in {Alice, <<"b", "o">>}, ttl \in Ttls : issue(u, ttl)

IssueGet == \E t \in tokens : read_task(t.token, 1)

NextIssue ==
    \/ Register
    \/ Issue
    \/ Tick
    \/ IssueGet

SpecIssue == Init /\ [][NextIssue]_vars

----------------------------------------------------------------------------
(* Listing: the store is filled and emptied, and listed with every          *)
(* combination of skip, limit and q                                         *)

\* the tasks created: "b" is in the description of the first and is the
\* title of the second, "c" is in the description of the second only
ListRows ==
    {[title |-> <<"A", "b">>, description |-> <<"b">>],
     [title |-> <<"b">>, description |-> <<"c">>]}

\* skip and limit as the query string gives them: both absent, or two
\* numbers
Pages == {<<None, None>>} \cup {<<Some(skip), Some(limit)>> : skip, limit \in {0, 1, 2}}

\* q: absent, a letter of one description, a letter stored in upper case
\* only, a LIKE wildcard
Queries == {None, Some(<<"c">>), Some(<<"a">>), Some(<<"_">>)}

ListCreate == \E tk \in Bearer, r \in ListRows : create_task(tk, r.title, r.description)

\* a request without a token is answered 401 whatever its query string
ListTasks ==
    \/ read_tasks(NoToken, None, None, None)
    \/ \E t \in tokens, page \in Pages, q \in Queries :
           read_tasks(t.token, page[1], page[2], q)

NextList ==
    \/ Register
    \/ Login
    \/ ListCreate
    \/ DeleteTask
    \/ ListTasks

SpecList == Init /\ [][NextList]_vars

----------------------------------------------------------------------------
(* Concurrent writers: the update and delete requests of two processes on  *)
(* task 1 interleave between their lookup and their commit                 *)

ConcTitle == <<"A", "b">>

ConcDescription == <<"b">>

\* a title other than the created one, the created title again, a description
ConcUpdates ==
    {[title |-> Some(<<"b">>), description |-> None],
     [title |-> Some(ConcTitle), description |-> None],
     [title |-> None, description |-> Some(<<"A", "b">>)]}

ConcCreate == \E tk \in Bearer : create_task(tk, ConcTitle, ConcDescription)

UpdateLoad ==
    \E p \in Procs, tk \in Bearer, u \in ConcUpdates : update_load(p, tk, 1, u)

UpdateCommit == \E p \in Procs : update_commit(p)

DeleteLoad == \E p \in Procs, tk \in Bearer : delete_load(p, tk, 1)

DeleteCommit == \E p \in Procs : delete_commit(p)

NextConc ==
    \/ Register
    \/ Login
    \/ ConcCreate
    \/ UpdateLoad
    \/ UpdateCommit
    \/ DeleteLoad
    \/ DeleteCommit

SpecConc == Init /\ [][NextConc]_vars

----------------------------------------------------------------------------
(* Two users: both register and log in, and either one's token goes with   *)
(* the task requests                                                       *)

Bob == <<"b", "o">>

Password2 == <<"p", "w", "2">>

RegisterBob == register_user(Bob, Password2, "s2")

LoginBob == login(Bob, Password2)

TwoCreate == \E tk \in Bearer : create_task(tk, OneString, <<"A", "b">>)

TwoList == \E tk \in Bearer : read_tasks(tk, None, None, None)

TwoGet == \E tk \in Bearer, id \in 1..MaxId : read_task(tk, id)

TwoUpdate == \E tk \in Bearer, id \in 1..MaxId : update_task(tk, id, OneUpdate)

TwoDelete == \E tk \in Bearer, id \in 1..MaxId : delete_task(tk, id)

NextTwo ==
    \/ Register
    \/ RegisterBob
    \/ Login
    \/ LoginBob
    \/ TwoCreate
    \/ TwoList
    \/ TwoGet
    \/ TwoUpdate
    \/ TwoDelete

SpecTwo == Init /\ [][NextTwo]_vars

----------------------------------------------------------------------------
(* Claims checked under SpecAuth and SpecAuthSeq *)

\* C1: however register requests interleave, no two rows of the users
\* table have the same username (usernames that differ in case are
\* different usernames)
C1_OneUserPerUsername ==
    \A r1, r2 \in users : r1.username = r2.username => r1 = r2

C1_Witness ==
    /\ last.op = "register_user" /\ last.status = 500
    /\ \A u \in AuthUsernames : FindUser(users, u) # {}

\* C2: run one after the other, a register of a username not in the table
\* answers 200 with {id, username} of the new row, and a register of a
\* username in the table (so the second of two registers of one username)
\* answers 400 and leaves the users table as it was
C2_SecondRegisterConflicts ==
    [][(last'.op = "register_user" /\ last'.seq # last.seq) =>
         LET u == last'.arg[1]
         IN  /\ IF FindUser(users, u) = {}
                THEN /\ last'.status = 200
                     /\ Cardinality(users') = Cardinality(users) + 1
                     /\ \E r \in users' \ users :
                            /\ r.username = u
                            /\ last'.body = <<[id |-> r.id, username |-> u]>>
                ELSE /\ last'.status = 400
                     /\ users' = users
             /\ (/\ last.op = "register_user" /\ last.status = 200
                 /\ last.arg[1] = u)
                => (last'.status = 400 /\ users' = users)]_vars

C2_Witness ==
    /\ prev.op = "register_user" /\ prev.status = 200
    /\ last.op = "register_user" /\ last.status = 400
    /\ Cardinality(users) = 1
    /\ \E r \in users : r.username = last.arg[1] /\ ~verify_password(last.arg[2], r.password)

\* C5: a login of a username not registered answers 401 and issues no
\* token, and a login that follows the successful register of (u, p) with
\* username u and password p2 answers 200 with a token exactly when p2 = p
C5_LoginIffExactPassword ==
    [][(last'.op = "login" /\ last'.seq # last.seq) =>
         /\ FindUser(users, last'.arg[1]) = {}
               => (last'.status = 401 /\ tokens' = tokens)
         /\ (/\ last.op = "register_user" /\ last.status = 200
             /\ last.arg[1] = last'.arg[1])
            => /\ last'.status = 200 <=> last'.arg[2] = last.arg[2]
               /\ last'.status # 200 => (last'.status = 401 /\ tokens' = tokens)]_vars

\* C13: when register requests interleave, each is answered 200 with
\* {id, username} or 400 (Conflict), a 400 only for a username that is
\* stored, and never with another error
C13_ConcurrentRegisterConflictOrSuccess ==
    last.op = "register_user" =>
        /\ last.status \in {200, 400}
        /\ last.status = 400 => FindUser(users, last.arg[1]) # {}
        /\ last.status = 200 => last.body[1].username = last.arg[1]

----------------------------------------------------------------------------
(* Claims checked under SpecTok *)

ProtectedOps == {"create_task", "read_tasks", "read_task", "update_task", "delete_task"}

\* the step answers a request to a protected route that carried token
Protected(token) ==
    /\ last'.seq # last.seq
    /\ last'.op \in ProtectedOps
    /\ last'.token = <<token>>

Unexpired(tk) == Seconds(clock) <= Seconds(tk.iat) + 60 * ACCESS_TOKEN_EXPIRE_MINUTES

C16_ExpiryIsIssuePlusTtl ==
    \A t \in tokens :
        "ttl" \in DOMAIN t =>
            /\ t.token.sub = t.user
            /\ t.token.exp = Seconds(t.iat + t.ttl)

\* C17: every row of the users table stays in it as it is (id, username,
\* password hash), a new row takes neither the id nor the username of a
\* stored one, and so a request that carries a token a login issued, before
\* the token's expiry, finds the token's user and is not answered 401
C17_UsersNeverChange ==
    [][/\ \A r \in users : r \in users'
       /\ \A n \in users' \ users, r \in users :
              n.id # r.id /\ n.username # r.username
       /\ \A tk \in tokens :
              (Protected(tk.token) /\ clock < tk.token.exp * TicksPerSecond)
                 => /\ FindUser(users, tk.token.sub) # {}
                    /\ last'.status # 401]_vars

C17_Witness ==
    /\ prev.op = "register_user" /\ prev.status = 400
    /\ last.op \in ProtectedOps /\ last.status # 401
    /\ UserOf(last) = Some(Alice)
    /\ clock > 0
    /\ \E r \in users : r.id = 1 /\ r.username = Alice

----------------------------------------------------------------------------
(* Claims checked under Spec *)

\* C6: a get of the id a create just returned answers 200 with the record
\* the create returned (same id, title and description)
C6_CreateThenFetch ==
    [][(/\ last.op = "create_task" /\ last.status = 200
        /\ last'.op = "read_task" /\ last'.seq # last.seq /\ last'.status # 401
        /\ last'.arg = <<last.body[1].id>>)
       => (last'.status = 200 /\ last'.body = last.body)]_vars

C6_Witness ==
    /\ prev.op = "create_task" /\ prev.status = 200
    /\ last.op = "read_task" /\ last.status = 200
    /\ last.arg = <<NextTaskId(tasks) - 1>>
    /\ Cardinality(tasks) = 2
    /\ last.body[1].title # last.body[1].description

RowOf(ts, id) == CHOOSE r \in ts : r.id = id

Others(ts, id) == {r \in ts : r.id # id}

\* the request a step answers: the operation and arguments of last', when
\* the step is a request's (every request moves last into prev)
Answers(op) == last'.op = op /\ last'.seq # last.seq /\ last'.status # 401

\* C7: an authorized update of a stored id overwrites the provided fields of
\* that row only (omitted fields, the id and all other rows keep their
\* values) and answers 200 with the row; of an id not stored it answers 404
\* and changes nothing
C7_UpdateFrame ==
    [][Answers("update_task") =>
         LET id == last'.arg[1]
             u == last'.arg[2]
         IN  IF id \in TaskIds(tasks)
             THEN /\ Cardinality({r \in tasks' : r.id = id}) = 1
                  /\ RowOf(tasks', id).title =
                         (IF u.title = None THEN RowOf(tasks, id).title ELSE u.title[1])
                  /\ RowOf(tasks', id).description =
                         (IF u.description = None THEN RowOf(tasks, id).description
                          ELSE u.description[1])
                  /\ Others(tasks', id) = Others(tasks, id)
                  /\ last'.status = 200
                  /\ last'.body = <<RowOf(tasks', id)>>
                  /\ users' = users
             ELSE /\ last'.status = 404
                  /\ tasks' = tasks
                  /\ users' = users]_vars

C7_Witness ==
    /\ last.op = "update_task" /\ last.status = 200
    /\ last.arg[2].title # None /\ last.arg[2].description = None
    /\ last.body[1].description # last.body[1].title
    /\ Cardinality(tasks) = 2

\* C8: an authorized delete of a stored id removes that row and no other
\* and answers 200; get, update and delete of an id not stored answer 404
\* and leave the table unchanged; an id not stored comes back only as the
\* id a create returns
C8_Delete ==
    [][/\ Answers("delete_task") =>
            IF last'.arg[1] \in TaskIds(tasks)
            THEN /\ tasks' = Others(tasks, last'.arg[1])
                 /\ Cardinality(tasks') = Cardinality(tasks) - 1
                 /\ last'.status = 200
            ELSE last'.status = 404 /\ tasks' = tasks
       /\ (/\ Answers("read_task") \/ Answers("update_task")
           /\ last'.arg[1] \notin TaskIds(tasks))
          => (last'.status = 404 /\ tasks' = tasks)
       /\ \A id \in 1..MaxId :
            (id \notin TaskIds(tasks) /\ id \in TaskIds(tasks'))
            => (/\ last'.op = "create_task" /\ last'.status = 200
                /\ last'.body[1].id = id)]_vars

C8_Witness ==
    /\ prev.op = "delete_task" /\ prev.status = 200
    /\ last.op = "read_task" /\ last.status = 404
    /\ last.arg = <<1>>
    /\ TaskIds(tasks) = {2}

\* C15: the id a create returns is the id of no stored task and of no
\* task deleted before it; in particular not the id the delete answered
\* just before the create took out of the table
C15_IdNeverReused ==
    [][(Answers("create_task") /\ last'.status = 200) =>
         /\ last'.body[1].id \notin TaskIds(tasks)
         /\ (last.op = "delete_task" /\ last.status = 200)
                => last'.body[1].id # last.arg[1]]_vars

----------------------------------------------------------------------------
(* Claims checked under SpecList *)

\* q occurs in s as it is written: the same characters, in the same case,
\* one after the other
Contains(s, q) ==
    \E i \in 0..(Len(s) - Len(q)) : SubSeq(s, i + 1, i + Len(q)) = q

Range(rows) == {rows[i] : i \in 1..Len(rows)}

\* the limit of a list request covers the store and nothing is skipped
CoversStore(arg, ts) ==
    /\ arg[1] \in {None, Some(0)}
    /\ arg[2] = None \/ arg[2][1] >= Cardinality(ts)

\* C9: a list with a non-empty q and a limit covering the store returns
\* exactly the tasks whose title or description contains q as a
\* case-sensitive, literal substring
C9_ListIsLiteralSubstring ==
    [][(/\ Answers("read_tasks")
        /\ last'.arg[3] \notin {None, Some(<<>>)}
        /\ CoversStore(last'.arg, tasks))
       => Range(last'.body) =
              {r \in tasks : \/ Contains(r.title, last'.arg[3][1])
                             \/ Contains(r.description, last'.arg[3][1])}]_vars

\* C10: a list leaves the store unchanged and returns, in ascending id
\* order, the tasks the query selects without the first skip of them and at
\* most limit of them; with no parameters skip is 0 and limit is 10; and
\* list(skip, a) followed by list(skip + a, b), same q, makes up
\* list(skip, a + b)
C10_Pagination ==
    [][Answers("read_tasks") =>
         LET q == last'.arg[3]
             page == last'.body
             skip == IF last'.arg[1] = None THEN 0 ELSE last'.arg[1][1]
             limit == IF last'.arg[2] = None THEN 10 ELSE last'.arg[2][1]
             selected == QueryTasks(tasks, 0, Cardinality(tasks), q)
             List(s, l) == SubSeq(selected, s + 1, Min(Len(selected), s + l))
         IN  /\ tasks' = tasks
             /\ last'.status = 200
             /\ \A i, j \in 1..Len(selected) : i < j => selected[i].id < selected[j].id
             /\ page = List(skip, limit)
             /\ (/\ last.op = "read_tasks" /\ last.status = 200
                 /\ last.arg[3] = q
                 /\ last.arg[1] # None /\ last.arg[2] # None
                 /\ last'.arg[1] = Some(last.arg[1][1] + last.arg[2][1])
                 /\ last'.arg[2] # None)
                    => last.body \o page = List(last.arg[1][1], last.arg[2][1] + limit)]_vars

C10_Witness ==
    /\ prev.op = "read_tasks" /\ prev.status = 200
    /\ last.op = "read_tasks" /\ last.status = 200
    /\ last.arg = <<Some(1), Some(1), Some(<<"a">>)>>
    /\ Cardinality(tasks) = 2
    /\ Len(last.body) = 1 /\ last.body[1].id = 2

----------------------------------------------------------------------------
(* Claims checked under SpecTwo *)

\* what a task request makes of the table ts, whoever sends it: the status
\* and body of its response and the table after it
Outcome(op, arg, ts) ==
    LET found == {r \in ts : r.id = arg[1]}
        row == CHOOSE r \in found : TRUE
        new == [id |-> NextTaskId(ts), title |-> arg[1], description |-> arg[2]]
        upd == ApplyUpdate(row, arg[2])
    IN  CASE op = "create_task" ->
                 [status |-> 200, body |-> <<new>>, tasks |-> ts \cup {new}]
          [] op = "read_tasks" ->
                 [status |-> 200, body |-> OrderById(ts), tasks |-> ts]
          [] op \in {"read_task", "update_task", "delete_task"} /\ found = {} ->
                 [status |-> 404, body |-> <<>>, tasks |-> ts]
          [] op = "read_task" /\ found # {} ->
                 [status |-> 200, body |-> <<row>>, tasks |-> ts]
          [] op = "update_task" /\ found # {} ->
                 [status |-> 200, body |-> <<upd>>, tasks |-> (ts \ {row}) \cup {upd}]
          [] op = "delete_task" /\ found # {} ->
                 [status |-> 200, body |-> <<>>, tasks |-> ts \ {row}]

\* C12: a task request that carries the token of a registered user is let
\* in, and its response and the table after it depend on the request and
\* the table only, not on the user; a get, update or delete of the task a
\* create just returned succeeds with any user's token
C12_SameForEveryUser ==
    [][\A t \in tokens :
          Protected(t.token) =>
            /\ last'.status # 401
            /\ [status |-> last'.status, body |-> last'.body, tasks |-> tasks']
                   = Outcome(last'.op, last'.arg, tasks)
            /\ (/\ last.op = "create_task" /\ last.status = 200
                /\ last'.op \in {"read_task", "update_task", "delete_task"}
                /\ last'.arg[1] = last.body[1].id)
                   => last'.status = 200]_vars

C12_Witness ==
    /\ prev.op = "create_task" /\ prev.status = 200 /\ prev.user = Some(Alice)
    /\ last.op = "update_task" /\ last.status = 200
    /\ UserOf(last) = Some(Bob)
    /\ last.arg[1] = MaxOf(TaskIds(tasks))
    /\ Cardinality(users) = 2

----------------------------------------------------------------------------
(* Claims checked under SpecConc *)

\* C11: when updates of one stored task interleave, each completes with
\* 200 and leaves the row that applying its fields to the row stored at
\* its commit gives, so that the stored row is the updates applied one
\* after the other in the order of their commits
C11_LastCommittedUpdateWins ==
    [][(Answers("update_task") /\ last'.arg[1] \in TaskIds(tasks)) =>
         /\ last'.status = 200
         /\ Cardinality({r \in tasks' : r.id = last'.arg[1]}) = 1
         /\ RowOf(tasks', last'.arg[1]) =
                ApplyUpdate(RowOf(tasks, last'.arg[1]), last'.arg[2])
         /\ Others(tasks', last'.arg[1]) = Others(tasks, last'.arg[1])]_vars

\* C14: when an update and a delete of one task interleave, the update is
\* answered 200 with the task or 404, the delete 200 or 404, and the table
\* holds whole rows only, at most one for an id
C14_UpdateDeleteAllOrNothing ==
    /\ (last.op \in {"update_task", "delete_task"} /\ last.status # 401)
           => last.status \in {200, 404}
    /\ (last.op = "update_task" /\ last.status = 200)
           => (Len(last.body) = 1 /\ last.body[1].id = last.arg[1])
    /\ \A r1, r2 \in tasks :
           /\ DOMAIN r1 = {"id", "title", "description"}
           /\ r1.id = r2.id => r1 = r2

====
